---- MODULE Spec2Model ----
(***************************************************************************)
(* Model of the expense ledger of src/expense-tracker/main.py: one SQLite  *)
(* table `expenses` (id INTEGER PRIMARY KEY AUTOINCREMENT, date, amount,   *)
(* category, subcategory, note) and the operations init_db, add_expense,   *)
(* list_expenses, summarize, edit_expense and delete_expense.  Every       *)
(* operation opens its own connection and runs one transaction, so each is *)
(* one atomic action.                                                      *)
(*                                                                         *)
(* Strings that are compared for order (dates) are sequences of character  *)
(* codes, compared as SQLite's BINARY collation compares TEXT.  An         *)
(* argument that may be Python's None is <<>> (NULL) when absent and <<v>>  *)
(* when it carries the value v.                                            *)
(***************************************************************************)
EXTENDS Integers, Sequences, FiniteSets

VARIABLES
    expenses,   \* the rows of table expenses: a set of records
    seq,        \* sqlite_sequence.seq of the table: largest rowid ever assigned
    call,       \* the last call: its name and its arguments
    res,        \* what the last call returned
    pre,        \* history: the rows of the table when the last call started
    used,       \* history: the rowids the table has assigned, in order
    nInit,      \* history: number of completed init_db runs
    nAdd        \* history: number of successful add_expense calls

vars == <<expenses, seq, call, res, pre, used, nInit, nAdd>>

----------------------------------------------------------------------------
(* Bounds of the model *)

\* rowids are assigned up to MaxId (the real bound is 2^63 - 1)
MaxId == 3

\* Date strings as sequences of character codes: "10" and "2"
Dates == {<<1, 0>>, <<2>>}
\* Range endpoints of list_expenses and summarize: also "1"
QueryDates == Dates \cup {<<1>>}
\* Amounts drawn by add_expense and edit_expense
Amounts == {10, 20}
Categories == {"food", "test"}
Subcategories == {"", "s"}
Notes == {"", "n"}
\* Arguments of edit_expense
NewAmounts == {20}
NewDates == {<<2>>}
NewSubcategories == {""}
\* The category argument of summarize, when it is not None
SummarizeCategories == {"", "food"}

----------------------------------------------------------------------------
(* Values *)

NULL == <<>>
Some(v) == <<v>>
Opt(S) == {NULL} \cup {Some(v) : v \in S}

\* COALESCE(x, cur) of SQL: the first non-NULL argument
COALESCE(x, cur) == IF x = NULL THEN cur ELSE x[1]

\* Python truthiness of an optional string argument: None and "" are falsy
Truthy(x) == x # NULL /\ x[1] # ""

Min(a, b) == IF a <= b THEN a ELSE b

\* a < b for TEXT values under the BINARY collation (memcmp, then length)
StrLess(a, b) ==
    \E i \in 1..(Min(Len(a), Len(b)) + 1) :
        /\ \A j \in 1..(i - 1) : a[j] = b[j]
        /\ \/ i > Len(a) /\ i <= Len(b)
           \/ i <= Len(a) /\ i <= Len(b) /\ a[i] < b[i]

StrLE(a, b) == a = b \/ StrLess(a, b)

\* Variant: the upper end of the range left out
BetweenOpenEnd(x, lo, hi) == StrLE(lo, x) /\ StrLess(x, hi)

\* x BETWEEN lo AND hi
Between(x, lo, hi) == StrLE(lo, x) /\ StrLE(x, hi)

SetMax(S) == CHOOSE m \in S : \A x \in S : x <= m

RECURSIVE SumAmount(_)
SumAmount(rows) ==
    IF rows = {} THEN 0
    ELSE LET r == CHOOSE x \in rows : TRUE
         IN  r.amount + SumAmount(rows \ {r})

----------------------------------------------------------------------------
(* The table *)

Row(id, date, amount, category, subcategory, note) ==
    [id |-> id, date |-> date, amount |-> amount, category |-> category,
     subcategory |-> subcategory, note |-> note]

Ids(rows) == {r.id : r \in rows}

\* Variant: INTEGER PRIMARY KEY without AUTOINCREMENT, one more than the
\* largest rowid now in the table
NextRowidMaxPlusOne(rows, s) == SetMax({0} \cup Ids(rows)) + 1

\* Variant: the probe row of init_db takes no id from the sequence
NextRowidProbeFree(rows, s) == IF rows = {} THEN 1 ELSE SetMax(Ids(rows)) + 1

\* The rowid an INSERT gets under AUTOINCREMENT: one more than the largest
\* rowid ever assigned (sqlite_sequence) and than every rowid in the table
NextRowid(rows, s) == SetMax({s} \cup Ids(rows)) + 1

\* The row init_db inserts: ('2000-01-01', 0, 'test'), defaults '' and ''
ProbeRow(id) == Row(id, <<0>>, 0, "test", "", "")

\* DELETE FROM expenses WHERE category = 'test'
DeleteProbe(rows) == {r \in rows : r.category # "test"}

\* No call is being served: nothing of a finished call is held
NoCall == [op |-> "none"]
NoResult == [status |-> "none"]
Idle == call = NoCall

\* A new database file on which the module's init_db() has run once
Init ==
    /\ expenses = {}
    /\ seq = 1
    /\ call = NoCall
    /\ res = NoResult
    /\ pre = {}
    /\ used = <<1>>
    /\ nInit = 1
    /\ nAdd = 0

\* init_db, run again when the process restarts on the same database file
init_db ==
    /\ Idle
    /\ seq < MaxId
    /\ LET id == NextRowid(expenses, seq)
       IN  /\ expenses' = DeleteProbe(expenses \cup {ProbeRow(id)})
           /\ seq' = id
           /\ used' = Append(used, id)
    /\ call' = [op |-> "init_db"]
    /\ res' = [status |-> "ok"]
    /\ pre' = expenses
    /\ nInit' = nInit + 1
    /\ UNCHANGED nAdd

\* INSERT INTO expenses(date, amount, category, subcategory, note) VALUES (?,?,?,?,?)
\* A NULL date, amount or category violates NOT NULL and nothing is inserted.
InsertExpense(rows, s, date, amount, category, subcategory, note) ==
    IF date = NULL \/ amount = NULL \/ category = NULL
    THEN [error |-> TRUE, rows |-> rows, seq |-> s, lastrowid |-> 0]
    ELSE LET id == NextRowid(rows, s)
         IN  [error |-> FALSE,
              rows |-> rows \cup {Row(id, date[1], amount[1], category[1],
                                      subcategory, note)},
              seq |-> id, lastrowid |-> id]

\* add_expense(date, amount, category, subcategory, note): the INSERT, and the
\* error result when sqlite3 raises
add_expense ==
    /\ Idle
    /\ seq < MaxId
    /\ \E date \in Opt(Dates), amount \in Opt(Amounts), category \in Opt(Categories),
          subcategory \in Subcategories, note \in Notes :
        LET ins == InsertExpense(expenses, seq, date, amount, category,
                                 subcategory, note)
        IN  /\ call' = [op |-> "add_expense", date |-> date, amount |-> amount,
                        category |-> category, subcategory |-> subcategory,
                        note |-> note]
            /\ pre' = expenses
            /\ expenses' = ins.rows
            /\ seq' = ins.seq
            /\ UNCHANGED nInit
            /\ IF ins.error
               THEN /\ res' = [status |-> "error"]
                    /\ UNCHANGED <<used, nAdd>>
               ELSE /\ res' = [status |-> "success", id |-> ins.lastrowid]
                    /\ used' = Append(used, ins.lastrowid)
                    /\ nAdd' = nAdd + 1

\* WHERE date BETWEEN ? AND ?
InRange(rows, start_date, end_date) ==
    {r \in rows : Between(r.date, start_date, end_date)}

\* ORDER BY date DESC, id DESC: a comes before b
RowBefore(a, b) ==
    \/ StrLess(b.date, a.date)
    \/ a.date = b.date /\ a.id > b.id

RECURSIVE OrderByDateIdDesc(_)
OrderByDateIdDesc(rows) ==
    IF rows = {} THEN <<>>
    ELSE LET first == CHOOSE r \in rows : \A x \in rows : ~RowBefore(x, r)
         IN  <<first>> \o OrderByDateIdDesc(rows \ {first})

\* The SELECT of list_expenses
ListRows(rows, start_date, end_date) ==
    OrderByDateIdDesc(InRange(rows, start_date, end_date))

list_expenses ==
    /\ Idle
    /\ \E start_date \in QueryDates, end_date \in QueryDates :
        /\ call' = [op |-> "list_expenses", start_date |-> start_date,
                    end_date |-> end_date]
        /\ res' = [status |-> "rows",
                   rows |-> ListRows(expenses, start_date, end_date)]
        /\ pre' = expenses
        /\ UNCHANGED <<expenses, seq, used, nInit, nAdd>>

\* The rows summarize selects: the date range, and the category only when the
\* argument is truthy (`if category:`)
SummarizeWhere(rows, start_date, end_date, category) ==
    {r \in InRange(rows, start_date, end_date) :
        Truthy(category) => r.category = category[1]}

\* GROUP BY category with SUM(amount) and COUNT(*)
GroupByCategory(rows) ==
    {[category |-> c,
      total_amount |-> SumAmount({r \in rows : r.category = c}),
      count |-> Cardinality({r \in rows : r.category = c})]
        : c \in {r.category : r \in rows}}

\* Variant: ORDER BY total_amount without DESC
OrderByTotalAsc(groups) ==
    {s \in [1..Cardinality(groups) -> groups] :
        /\ \A i, j \in DOMAIN s : i # j => s[i] # s[j]
        /\ \A i, j \in DOMAIN s :
               i < j => s[i].total_amount <= s[j].total_amount}

\* ORDER BY total_amount DESC: every arrangement of the groups with
\* non-increasing totals (the order of equal totals is the engine's choice)
OrderByTotalDesc(groups) ==
    {s \in [1..Cardinality(groups) -> groups] :
        /\ \A i, j \in DOMAIN s : i # j => s[i] # s[j]
        /\ \A i, j \in DOMAIN s :
               i < j => s[i].total_amount >= s[j].total_amount}

summarize ==
    /\ Idle
    /\ \E start_date \in QueryDates, end_date \in QueryDates,
          category \in Opt(SummarizeCategories) :
        \E rows \in OrderByTotalDesc(GroupByCategory(
                        SummarizeWhere(expenses, start_date, end_date, category))) :
            /\ call' = [op |-> "summarize", start_date |-> start_date,
                        end_date |-> end_date, category |-> category]
            /\ res' = [status |-> "rows", rows |-> rows]
            /\ pre' = expenses
            /\ UNCHANGED <<expenses, seq, used, nInit, nAdd>>

\* WHERE date = ? AND category = ? of edit_expense
EditMatches(rows, date, category) ==
    {r \in rows : r.date = date /\ r.category = category}

\* Variant: amount coalesced like the other columns and so left alone when
\* another new_* argument is given
EditRowKeepAmount(r, new_amount, new_date, new_subcategory, new_note) ==
    Row(r.id, COALESCE(new_date, r.date),
        IF new_date = NULL /\ new_subcategory = NULL /\ new_note = NULL
        THEN new_amount[1] ELSE r.amount,
        r.category,
        COALESCE(new_subcategory, r.subcategory), COALESCE(new_note, r.note))

\* Variant: `new_note or note`, an empty new_note taken as absent
EditRowTruthyNote(r, new_amount, new_date, new_subcategory, new_note) ==
    Row(r.id, COALESCE(new_date, r.date), new_amount[1], r.category,
        COALESCE(new_subcategory, r.subcategory),
        IF Truthy(new_note) THEN new_note[1] ELSE r.note)

\* SET amount = ?, date = COALESCE(?, date),
\*     subcategory = COALESCE(?, subcategory), note = COALESCE(?, note)
EditRow(r, new_amount, new_date, new_subcategory, new_note) ==
    Row(r.id, COALESCE(new_date, r.date), new_amount[1], r.category,
        COALESCE(new_subcategory, r.subcategory), COALESCE(new_note, r.note))

\* Variant: the columns written before the NOT NULL failure are kept
UpdateExpensesNoRollback(rows, date, category, new_amount, new_date, new_subcategory, new_note) ==
    LET matched == EditMatches(rows, date, category)
    IN  IF new_amount = NULL /\ matched # {}
        THEN [error |-> TRUE,
              rows |-> (rows \ matched) \cup
                       {Row(r.id, COALESCE(new_date, r.date), r.amount,
                            r.category,
                            COALESCE(new_subcategory, r.subcategory),
                            COALESCE(new_note, r.note)) : r \in matched},
              rowcount |-> 0]
        ELSE [error |-> FALSE,
              rows |-> (rows \ matched) \cup
                       {Row(r.id, COALESCE(new_date, r.date), new_amount[1],
                            r.category,
                            COALESCE(new_subcategory, r.subcategory),
                            COALESCE(new_note, r.note)) : r \in matched},
              rowcount |-> Cardinality(matched)]

\* The UPDATE of edit_expense.  A NULL new_amount violates NOT NULL on the
\* first matched row: the statement is backed out and sqlite3 raises.
UpdateExpenses(rows, date, category, new_amount, new_date, new_subcategory, new_note) ==
    LET matched == EditMatches(rows, date, category)
    IN  IF new_amount = NULL /\ matched # {}
        THEN [error |-> TRUE, rows |-> rows, rowcount |-> 0]
        ELSE [error |-> FALSE,
              rows |-> (rows \ matched) \cup
                       {EditRow(r, new_amount, new_date, new_subcategory,
                                new_note) : r \in matched},
              rowcount |-> Cardinality(matched)]

edit_expense ==
    /\ Idle
    /\ \E date \in Dates, category \in Categories, new_amount \in Opt(NewAmounts),
          new_date \in Opt(NewDates), new_subcategory \in Opt(NewSubcategories),
          new_note \in Opt(Notes) :
        LET upd == UpdateExpenses(expenses, date, category, new_amount,
                                  new_date, new_subcategory, new_note)
        IN  /\ call' = [op |-> "edit_expense", date |-> date,
                        category |-> category, new_amount |-> new_amount,
                        new_date |-> new_date,
                        new_subcategory |-> new_subcategory,
                        new_note |-> new_note]
            /\ pre' = expenses
            /\ expenses' = upd.rows
            /\ res' = IF upd.error
                      THEN [status |-> "error"]
                      ELSE [status |-> "success", updated_rows |-> upd.rowcount]
            /\ UNCHANGED <<seq, used, nInit, nAdd>>

\* Variant: the default note "" taken as "any note"
DeleteMatchesAnyNote(rows, date, category, note) ==
    {r \in rows : r.date = date /\ r.category = category
                    /\ (note = "" \/ r.note = note)}

\* WHERE date = ? AND category = ? AND note = ? of delete_expense
DeleteMatches(rows, date, category, note) ==
    {r \in rows : r.date = date /\ r.category = category /\ r.note = note}

delete_expense ==
    /\ Idle
    /\ \E date \in Dates, category \in Categories, note \in Notes :
        LET matched == DeleteMatches(expenses, date, category, note)
        IN  /\ call' = [op |-> "delete_expense", date |-> date,
                        category |-> category, note |-> note]
            /\ expenses' = expenses \ matched
            /\ res' = [status |-> "success",
                       deleted_rows |-> Cardinality(matched)]
            /\ pre' = expenses
            /\ UNCHANGED <<seq, used, nInit, nAdd>>

\* The result goes back to the caller; the server holds nothing of the call
Return ==
    /\ ~Idle
    /\ call' = NoCall
    /\ res' = NoResult
    /\ pre' = {}
    /\ UNCHANGED <<expenses, seq, used, nInit, nAdd>>

Next ==
    \/ Return
    \/ init_db
    \/ add_expense
    \/ list_expenses
    \/ summarize
    \/ edit_expense
    \/ delete_expense

Spec == Init /\ [][Next]_vars
----------------------------------------------------------------------------
(* The claims.  In the state that follows an operation, call holds its     *)
(* arguments, res its result, pre the table before it and expenses the     *)
(* table after it.                                                         *)

\* The order of the model's date strings as text: "0" < "1" < "10" < "2"
LexRank(d) ==
    CASE d = <<0>> -> 0
      [] d = <<1>> -> 1
      [] d = <<1, 0>> -> 2
      [] d = <<2>> -> 3

LexBetween(d, lo, hi) == LexRank(lo) <= LexRank(d) /\ LexRank(d) <= LexRank(hi)

Elems(s) == {s[i] : i \in DOMAIN s}

\* C1: list_expenses(start_date, end_date) returns exactly the records whose
\* date d has start_date <= d <= end_date as strings (both ends included),
\* each as the table holds it, ordered by date descending and then by id
\* descending; with no match the result is the empty sequence, not an error.
C1_ListRange ==
    call.op = "list_expenses" =>
        LET want == {r \in pre : LexBetween(r.date, call.start_date, call.end_date)}
        IN  /\ res.status = "rows"
            /\ expenses = pre
            /\ Elems(res.rows) = want
            /\ Len(res.rows) = Cardinality(want)
            /\ \A i, j \in DOMAIN res.rows :
                   i < j =>
                       \/ LexRank(res.rows[i].date) > LexRank(res.rows[j].date)
                       \/ /\ res.rows[i].date = res.rows[j].date
                          /\ res.rows[i].id > res.rows[j].id

\* A listing that returns two records, one dated exactly end_date and then one
\* dated exactly start_date
C1_Witness ==
    /\ call.op = "list_expenses"
    /\ call.start_date # call.end_date
    /\ Len(res.rows) = 2
    /\ res.rows[1].date = call.end_date
    /\ res.rows[2].date = call.start_date

\* The records of the table before the call that edit_expense's (date, category)
\* matches
C_EditMatched == {r \in pre : r.date = call.date /\ r.category = call.category}

\* C2: after a successful edit_expense(date, category, X, ...) every record
\* that matched (date, category) before the call has amount X, whatever other
\* new_* arguments were given, and updated_rows is the number of records that
\* matched (0 with status success when none did).
C2_EditAmount ==
    /\ (call.op = "edit_expense" /\ res.status = "success") =>
           /\ \A r \in C_EditMatched :
                  /\ \E q \in expenses : q.id = r.id
                  /\ \A q \in expenses :
                         q.id = r.id => q.amount = call.new_amount[1]
           /\ res.updated_rows = Cardinality(C_EditMatched)
    /\ (call.op = "edit_expense" /\ C_EditMatched = {}) =>
           (res.status = "success" /\ res.updated_rows = 0)

\* An edit that matched two records, changed the amount of one of them and
\* also supplied a new date and a new note
C2_Witness ==
    /\ call.op = "edit_expense"
    /\ res.status = "success"
    /\ res.updated_rows = 2
    /\ call.new_date # NULL
    /\ call.new_note # NULL
    /\ \E r \in C_EditMatched : r.amount # call.new_amount[1]

\* C3: in edit_expense each of new_date, new_subcategory and new_note is
\* resolved on its own: omitted (NULL), the field of every matched record is
\* as before; supplied (the empty string included), it is the supplied value.
C3_EditCoalesce ==
    (call.op = "edit_expense" /\ res.status = "success") =>
        \A r \in C_EditMatched :
            /\ \E q \in expenses : q.id = r.id
            /\ \A q \in expenses :
                   q.id = r.id =>
                       /\ q.date = IF call.new_date = NULL
                                   THEN r.date ELSE call.new_date[1]
                       /\ q.subcategory = IF call.new_subcategory = NULL
                                          THEN r.subcategory
                                          ELSE call.new_subcategory[1]
                       /\ q.note = IF call.new_note = NULL
                                   THEN r.note ELSE call.new_note[1]
                       /\ q.category = r.category

\* An edit that supplies the empty note for a record whose note was "n" and
\* omits the subcategory of a record whose subcategory was "s"
C3_Witness ==
    /\ call.op = "edit_expense"
    /\ res.status = "success"
    /\ call.new_note = Some("")
    /\ call.new_subcategory = NULL
    /\ call.new_date # NULL
    /\ \E r \in C_EditMatched :
           r.note = "n" /\ r.subcategory = "s" /\ r.date # call.new_date[1]

\* The records of the table before the call that delete_expense's triple matches
C_DeleteMatched ==
    {r \in pre : r.date = call.date /\ r.category = call.category
                    /\ r.note = call.note}

\* C4: delete_expense(date, category, note) removes exactly the records whose
\* date, category and note equal the arguments and leaves the others as they
\* were (with note "" a record with a non-empty note stays); deleted_rows is
\* the number removed, with status success.
C4_DeleteExact ==
    call.op = "delete_expense" =>
        /\ res.status = "success"
        /\ expenses = pre \ C_DeleteMatched
        /\ res.deleted_rows = Cardinality(C_DeleteMatched)
        /\ \A r \in pre : (call.note = "" /\ r.note # "") => r \in expenses

\* A delete with note "" that removes one record and keeps the record of the
\* same date and category whose note is "n"
C4_Witness ==
    /\ call.op = "delete_expense"
    /\ call.note = ""
    /\ res.deleted_rows = 1
    /\ \E r \in expenses :
           r.date = call.date /\ r.category = call.category /\ r.note = "n"

\* The records in summarize's date range, and those of one category
C_SumInRange ==
    {r \in pre : LexBetween(r.date, call.start_date, call.end_date)}
C_SumOf(c) == {r \in C_SumInRange : r.category = c}

\* C5: summarize(start_date, end_date) returns exactly one row per category
\* with a record dated in the inclusive range; the row's total_amount is the
\* sum of those records' amounts and its count their number; no other category
\* appears; rows are in order of non-increasing total_amount.
C5_Summarize ==
    (call.op = "summarize" /\ call.category = NULL) =>
        /\ res.status = "rows"
        /\ {row.category : row \in Elems(res.rows)}
               = {r.category : r \in C_SumInRange}
        /\ Len(res.rows) = Cardinality({r.category : r \in C_SumInRange})
        /\ \A row \in Elems(res.rows) :
               /\ row.total_amount = SumAmount(C_SumOf(row.category))
               /\ row.count = Cardinality(C_SumOf(row.category))
               /\ row.count >= 1
        /\ \A i, j \in DOMAIN res.rows :
               i < j => res.rows[i].total_amount >= res.rows[j].total_amount

\* A summary of two categories with different totals
C5_Witness ==
    /\ call.op = "summarize"
    /\ call.category = NULL
    /\ Len(res.rows) = 2
    /\ res.rows[1].total_amount > res.rows[2].total_amount

\* A summary of one category that adds up two records
C5_WitnessSum ==
    /\ call.op = "summarize"
    /\ call.category = NULL
    /\ Len(res.rows) = 1
    /\ res.rows[1].count = 2
    /\ res.rows[1].total_amount = 30

\* C6: when a category argument c is supplied to summarize (any string),
\* no row of the result has a category other than c.
C6_SummarizeFilter ==
    (call.op = "summarize" /\ call.category # NULL) =>
        \A row \in Elems(res.rows) : row.category = call.category[1]

\* C7: init_db on a store that holds records leaves the records as they were.
C7_InitKeepsRecords ==
    call.op = "init_db" => expenses = pre

StrictlyIncreasing(s) == \A i, j \in DOMAIN s : i < j => s[i] < s[j]

\* C8: record ids are unique; the id a successful add_expense returns is
\* greater than every id assigned before it, those of deleted records
\* included; no operation changes the id of a record: an add brings exactly
\* its new id, an edit keeps every id, delete and init_db only take ids away.
C8_Ids ==
    /\ \A r, q \in expenses : r.id = q.id => r = q
    /\ StrictlyIncreasing(used)
    /\ Ids(expenses) \subseteq Elems(used)
    /\ (call.op = "add_expense" /\ res.status = "success") =>
           /\ res.id = used[Len(used)]
           /\ Ids(pre) \subseteq Elems(SubSeq(used, 1, Len(used) - 1))
           /\ Ids(expenses) = Ids(pre) \cup {res.id}
    /\ call.op = "edit_expense" =>
           /\ Ids(expenses) = Ids(pre)
           /\ Cardinality(expenses) = Cardinality(pre)
    /\ call.op \in {"delete_expense", "init_db"} =>
           Ids(expenses) \subseteq Ids(pre)
    /\ call.op \in {"list_expenses", "summarize"} => expenses = pre

\* An add on a table emptied by a delete: the id of the deleted record is not
\* given again
C8_Witness ==
    /\ call.op = "add_expense"
    /\ res.status = "success"
    /\ pre = {}
    /\ nInit = 1
    /\ nAdd = 2
    /\ res.id = 3

\* The storage engine rejects the call: a NULL in a NOT NULL column
C_Rejected ==
    \/ /\ call.op = "add_expense"
       /\ call.date = NULL \/ call.amount = NULL \/ call.category = NULL
    \/ /\ call.op = "edit_expense"
       /\ call.new_amount = NULL
       /\ C_EditMatched # {}

\* C9: an add_expense or edit_expense the storage engine rejects returns status
\* "error" and leaves the ledger exactly as it was.
C9_ErrorKeepsLedger ==
    C_Rejected => (res.status = "error" /\ expenses = pre)

\* A rejected edit that matched two records and supplied a new date and note
C9_Witness ==
    /\ call.op = "edit_expense"
    /\ res.status = "error"
    /\ Cardinality(C_EditMatched) = 2
    /\ call.new_date # NULL
    /\ call.new_note # NULL
    /\ \E r \in C_EditMatched : r.date # call.new_date[1]

\* A rejected add on a table that holds a record
C9_WitnessAdd ==
    /\ call.op = "add_expense"
    /\ res.status = "error"
    /\ call.amount = NULL
    /\ pre # {}

\* The first successful add_expense has just returned
C_FirstAdd == call.op = "add_expense" /\ res.status = "success" /\ nAdd = 1

\* The record the add created is in every listing whose range holds its date
C_ListedWithId(id) ==
    \A lo, hi \in QueryDates :
        LexBetween(call.date[1], lo, hi) =>
            Row(id, call.date[1], call.amount[1], call.category[1],
                call.subcategory, call.note)
                \in Elems(ListRows(expenses, lo, hi))

\* C10 as stated: on a new store on which init_db has run, the first
\* successful add_expense returns id 1 and the listing shows it with id 1.
C10_FirstIdIsOne ==
    C_FirstAdd => (res.id = 1 /\ C_ListedWithId(1))

\* C10 as amended: on a new store the first successful add_expense returns
\* one more than the number of init_db runs (2 after the run at start-up),
\* each run's probe row having taken an id; the listing shows it with that id.
C10_FirstIdAfterProbes ==
    C_FirstAdd =>
        /\ res.id = nInit + 1
        /\ nInit = 1 => res.id = 2
        /\ C_ListedWithId(res.id)

\* The first add after init_db has run twice returns 3
C10_Witness ==
    /\ C_FirstAdd
    /\ nInit = 2
    /\ res.id = 3

====
